---- MODULE Spec2Model ----
(***************************************************************************)
(* Model of the hospital-appointment backend (backend/main.go): the gin    *)
(* handlers over the three MongoDB collections users, doctor and patients. *)
(* A collection is the sequence of its documents in natural (insertion)    *)
(* order; FindOne and UpdateOne act on the first document that matches.    *)
(* Every handler performs one store call and is one atomic action, except  *)
(* SignUp, which performs two (CountDocuments, then InsertOne) and is two  *)
(* actions, so that concurrent requests interleave between them.           *)
(***************************************************************************)
EXTENDS Integers, Sequences, FiniteSets, TLC

\* ---------------------------------------------------------------- bounds
MaxUsers == 2          \* user documents (domain specification)
MaxDoctors == 2        \* doctor documents (domain specification)
MaxSchedule == 3       \* length of a patient's schedule that may still grow
AllMaxUsers == 1       \* the same three caps in the all-handlers specification
AllMaxDoctors == 1
AllMaxSchedule == 2

\* ---------------------------------------------------------------- inputs
Slots == {"r1", "r2"}                \* concurrently served SignUp requests
Usernames == {"alice", "Alice"}
Salts == {"s1", "s2"}                \* bcrypt draws a fresh salt per hash
DoctorIDs == {"d1", "d2"}
PatientIDs == {"p1", "p2", "p3"}     \* p3 is never stored
Appointments == {"A1", "A2"}

\* HTTP status codes (net/http)
StatusOK == 200
StatusBadRequest == 400
StatusNotFound == 404

\* A Go []string: the nil slice and the empty slice are different values
\* (BSON null / JSON null versus an empty array).
NilSlice == [kind |-> "nil", elems |-> <<>>]
Slice(s) == [kind |-> "array", elems |-> s]

\* type User struct
User(username, password, email) ==
    [username |-> username, password |-> password, email |-> email]
\* type Doctor struct
Doctor(id, dname, schedule) == [id |-> id, dname |-> dname, schedule |-> schedule]
\* type Patient struct
Patient(id, pname, schedule) == [id |-> id, pname |-> pname, schedule |-> schedule]

\* A request body as ShouldBindJSON sees it: ok = FALSE is a body that does
\* not decode into the handler's target type.
Body(v) == [ok |-> TRUE, val |-> v]
Malformed(v) == [ok |-> FALSE, val |-> v]

VARIABLES
    users,          \* collection hospital.users
    doctors,        \* collection hospital.doctor
    patients,       \* collection hospital.patients
    pc,             \* per SignUp request: "idle" or "insert" (check passed)
    newUser,        \* per SignUp request: the bound User, <<>> when idle
    resp,           \* per SignUp request: the response last written
    last,           \* the handler step taken last: request and response
    overlap,        \* history: a SignUp began while another was in flight
    lastCreated,    \* history: per doctor id, the document of the latest
                    \*   CreateDoctor since the last SetDoctorSchedule on it
    firstCreated    \* history: per doctor id, the document created while no
                    \*   document with that id was stored, same reset

vars == <<users, doctors, patients, pc, newUser, resp, last, overlap,
          lastCreated, firstCreated>>

\* gin.H{"message": m} / gin.H{"error": m} with its status
Response(status, body) == [status |-> status, body |-> body]
NoResponse == Response(0, "")
Step(op, args, r) == [op |-> op, args |-> args, status |-> r.status, body |-> r.body]

\* ------------------------------------------------------- store primitives
\* The documents of coll that a filter on the id field selects (their indices).
MatchID(coll, id) == {i \in 1..Len(coll) : coll[i].id = id}

\* The first of the matching documents in natural order, 0 when none matches.
FindFirst(matches) ==
    IF matches = {} THEN 0
    ELSE CHOOSE i \in matches : \A j \in matches : i <= j

\* Collection.UpdateOne: the first matching document becomes upd[i], where upd
\* maps each matching index to its updated document; no upsert.
UpdateOne(coll, matches, upd) ==
    LET i == FindFirst(matches)
    IN IF i = 0 THEN coll ELSE [coll EXCEPT ![i] = upd[i]]

\* Collection.InsertOne
InsertOne(coll, doc) == Append(coll, doc)

\* Collection.CountDocuments(bson.M{"username": username})
CountDocuments(coll, username) ==
    Cardinality({i \in 1..Len(coll) : coll[i].username = username})

\* ---------------------------------------------------------------- SignUp
\* isUsernameTaken with the comparison off by one
isUsernameTaken_offByOne(coll, username) == CountDocuments(coll, username) > 1

isUsernameTaken(coll, username) == CountDocuments(coll, username) > 0

\* bcrypt.GenerateFromPassword: one-way, salted
GenerateFromPassword(password, salt) ==
    [alg |-> "bcrypt", salt |-> salt, of |-> password]

SignUpBodies ==
    {Body(User(u, "secret", "a@x.org")) : u \in Usernames}
        \cup {Malformed(User("", "", ""))}

\* SignUp up to and including the isUsernameTaken call (main.go 99-111).
SignUpCheck(r, body) ==
    /\ pc[r] = "idle"
    /\ overlap' = (overlap \/ \E q \in Slots \ {r} : pc[q] = "insert")
    /\ UNCHANGED <<users, doctors, patients, lastCreated, firstCreated>>
    /\ IF ~body.ok
       THEN LET rs == Response(StatusBadRequest, "Invalid input data")
            IN /\ resp' = [resp EXCEPT ![r] = rs]
               /\ last' = Step("SignUp", <<r, body>>, rs)
               /\ UNCHANGED <<pc, newUser>>
       ELSE IF isUsernameTaken(users, body.val.username)
       THEN LET rs == Response(StatusBadRequest, "Username is already taken")
            IN /\ resp' = [resp EXCEPT ![r] = rs]
               /\ last' = Step("SignUp", <<r, body>>, rs)
               /\ UNCHANGED <<pc, newUser>>
       ELSE /\ pc' = [pc EXCEPT ![r] = "insert"]
            /\ newUser' = [newUser EXCEPT ![r] = <<body.val>>]
            /\ resp' = [resp EXCEPT ![r] = NoResponse]
            /\ last' = Step("SignUp", <<r, body>>, NoResponse)

\* SignUpInsert as a conditional insert: the username is looked up again
SignUpInsert_conditional(r, salt) ==
    /\ pc[r] = "insert"
    /\ LET u == newUser[r][1]
           hashed == User(u.username, GenerateFromPassword(u.password, salt), u.email)
           taken == CountDocuments(users, u.username) > 0
           rs == IF taken
                 THEN Response(StatusBadRequest, "Username is already taken")
                 ELSE Response(StatusOK, "User created successfully")
       IN /\ users' = IF taken THEN users ELSE InsertOne(users, hashed)
          /\ resp' = [resp EXCEPT ![r] = rs]
          /\ last' = Step("SignUp.insert", <<r, Body(u)>>, rs)
    /\ pc' = [pc EXCEPT ![r] = "idle"]
    /\ newUser' = [newUser EXCEPT ![r] = <<>>]
    /\ UNCHANGED <<doctors, patients, overlap, lastCreated, firstCreated>>

\* SignUp from the password hash to the response (main.go 113-127).
SignUpInsert(r, salt) ==
    /\ pc[r] = "insert"
    /\ LET u == newUser[r][1]
           hashed == User(u.username, GenerateFromPassword(u.password, salt), u.email)
           rs == Response(StatusOK, "User created successfully")
       IN /\ users' = InsertOne(users, hashed)
          /\ resp' = [resp EXCEPT ![r] = rs]
          /\ last' = Step("SignUp.insert", <<r, Body(u)>>, rs)
    /\ pc' = [pc EXCEPT ![r] = "idle"]
    /\ newUser' = [newUser EXCEPT ![r] = <<>>]
    /\ UNCHANGED <<doctors, patients, overlap, lastCreated, firstCreated>>

\* A whole SignUp that no other request interleaves with: its store effect.
SignUpStore(coll, body, salt) ==
    IF ~body.ok \/ isUsernameTaken(coll, body.val.username)
    THEN coll
    ELSE InsertOne(coll, User(body.val.username,
                              GenerateFromPassword(body.val.password, salt),
                              body.val.email))

\* ------------------------------------------------------ doctor directory
\* bson.Marshal of a Doctor / Patient value: a nil slice is stored as null.
Marshal(d) ==
    [d EXCEPT !.schedule = IF d.schedule.kind = "nil"
                           THEN [kind |-> "null", elems |-> <<>>]
                           ELSE d.schedule]

\* SingleResult.Decode into a Doctor / Patient: null decodes to the nil slice.
Decode(doc) ==
    [doc EXCEPT !.schedule = IF doc.schedule.kind = "null"
                             THEN NilSlice
                             ELSE doc.schedule]

CreateInputs ==
    { Doctor("d1", "Ann", Slice(<<"Mon", "Wed">>)),
      Doctor("d1", "Bob", NilSlice),
      Doctor("d2", "Ann", Slice(<<"Tue">>)) }
DoctorBodies == {Body(d) : d \in CreateInputs} \cup {Malformed(Doctor("", "", NilSlice))}
ScheduleBodies ==
    {Body(Slice(<<"Wed", "Mon">>)), Body(NilSlice), Malformed(NilSlice)}

HasDoctor(coll, id) == FindFirst(MatchID(coll, id)) # 0

\* GetDoctorByIDResponse reading the newest matching document
GetDoctorByIDResponse_newest(coll, doctorID) ==
    LET m == {i \in 1..Len(coll) : coll[i].id = doctorID}
    IN IF m = {}
       THEN Response(StatusNotFound, "Doctor not found")
       ELSE Response(StatusOK, Decode(coll[CHOOSE i \in m : \A j \in m : j <= i]))

\* The response GetDoctorByID writes when the doctor collection is coll.
GetDoctorByIDResponse(coll, doctorID) ==
    LET i == FindFirst(MatchID(coll, doctorID))
    IN IF i = 0
       THEN Response(StatusNotFound, "Doctor not found")
       ELSE Response(StatusOK, Decode(coll[i]))

\* The store effect of CreateDoctor.
CreateDoctorStore(coll, body) ==
    IF ~body.ok THEN coll ELSE InsertOne(coll, Marshal(body.val))

\* SetDoctorScheduleStore that adds the new entries to the stored ones
SetDoctorScheduleStore_merge(coll, doctorID, body) ==
    IF ~body.ok THEN coll
    ELSE UpdateOne(coll, MatchID(coll, doctorID),
                   [i \in MatchID(coll, doctorID) |->
                       [coll[i] EXCEPT !.schedule =
                                  Slice(coll[i].schedule.elems \o body.val.elems)]])

\* The store effect of SetDoctorSchedule: $set of the whole schedule field.
SetDoctorScheduleStore(coll, doctorID, body) ==
    IF ~body.ok THEN coll
    ELSE UpdateOne(coll, MatchID(coll, doctorID),
                   [i \in MatchID(coll, doctorID) |->
                       Marshal([coll[i] EXCEPT !.schedule = body.val])])

GetDoctors ==
    /\ LET decoded == [i \in 1..Len(doctors) |-> Decode(doctors[i])]
           \* var doctors []Doctor stays nil when the cursor is empty
           out == IF Len(doctors) = 0 THEN NilSlice ELSE Slice(decoded)
       IN last' = Step("GetDoctors", <<>>, Response(StatusOK, out))
    /\ UNCHANGED <<users, doctors, patients, pc, newUser, resp, overlap,
                   lastCreated, firstCreated>>

GetDoctorByID(doctorID) ==
    /\ last' = Step("GetDoctorByID", <<doctorID>>,
                    GetDoctorByIDResponse(doctors, doctorID))
    /\ UNCHANGED <<users, doctors, patients, pc, newUser, resp, overlap,
                   lastCreated, firstCreated>>

CreateDoctor(body) ==
    /\ doctors' = CreateDoctorStore(doctors, body)
    /\ IF ~body.ok
       THEN /\ last' = Step("CreateDoctor", <<body>>,
                            Response(StatusBadRequest, "Invalid input data"))
            /\ UNCHANGED <<lastCreated, firstCreated>>
       ELSE /\ last' = Step("CreateDoctor", <<body>>,
                            Response(StatusOK, "Doctor created successfully"))
            /\ lastCreated' = [lastCreated EXCEPT ![body.val.id] = <<body.val>>]
            /\ firstCreated' =
                  IF HasDoctor(doctors, body.val.id) THEN firstCreated
                  ELSE [firstCreated EXCEPT ![body.val.id] = <<body.val>>]
    /\ UNCHANGED <<users, patients, pc, newUser, resp, overlap>>

SetDoctorSchedule(doctorID, body) ==
    /\ doctors' = SetDoctorScheduleStore(doctors, doctorID, body)
    /\ IF ~body.ok
       THEN /\ last' = Step("SetDoctorSchedule", <<doctorID, body>>,
                            Response(StatusBadRequest, "Invalid input data"))
            /\ UNCHANGED <<lastCreated, firstCreated>>
       ELSE /\ last' = Step("SetDoctorSchedule", <<doctorID, body>>,
                            Response(StatusOK, "Doctor's schedule updated successfully"))
            /\ lastCreated' = [lastCreated EXCEPT ![doctorID] = <<>>]
            /\ firstCreated' = [firstCreated EXCEPT ![doctorID] = <<>>]
    /\ UNCHANGED <<users, patients, pc, newUser, resp, overlap>>

\* ------------------------------------------------- patient appointments
\* The filter bson.M{"schedule": v} on an array field: some element equals v.
Contains(schedule, v) ==
    \E k \in 1..Len(schedule.elems) : schedule.elems[k] = v

\* PushOp as $addToSet: an element already present is not added again
PushOp_addToSet(schedule, v) ==
    IF \E k \in 1..Len(schedule.elems) : schedule.elems[k] = v
    THEN schedule
    ELSE Slice(Append(schedule.elems, v))

\* $push: append one element.
PushOp(schedule, v) == Slice(Append(schedule.elems, v))

\* PullOp that removes the first element equal to v only
PullOp_first(schedule, v) ==
    IF \E k \in 1..Len(schedule.elems) : schedule.elems[k] = v
    THEN LET k == CHOOSE k \in 1..Len(schedule.elems) :
                     /\ schedule.elems[k] = v
                     /\ \A j \in 1..(k - 1) : schedule.elems[j] # v
         IN Slice(SubSeq(schedule.elems, 1, k - 1)
                    \o SubSeq(schedule.elems, k + 1, Len(schedule.elems)))
    ELSE schedule

\* $pull: remove every element equal to v.
PullOp(schedule, v) == Slice(SelectSeq(schedule.elems, LAMBDA x : x # v))

\* SetPositionalOp as "schedule.$[]"-style: every matching element overwritten
SetPositionalOp_all(schedule, old, new) ==
    Slice([k \in 1..Len(schedule.elems) |->
              IF schedule.elems[k] = old THEN new ELSE schedule.elems[k]])

\* $set on "schedule.$": overwrite the first element that matched the filter.
SetPositionalOp(schedule, old, new) ==
    LET k == CHOOSE k \in 1..Len(schedule.elems) :
                /\ schedule.elems[k] = old
                /\ \A j \in 1..(k - 1) : schedule.elems[j] # old
    IN Slice([schedule.elems EXCEPT ![k] = new])

\* The filter bson.M{"id": id, "schedule": v}
MatchAppointment(coll, id, v) ==
    {i \in MatchID(coll, id) : Contains(coll[i].schedule, v)}

AppointmentBodies == {Body(a) : a \in Appointments} \cup {Malformed("")}

\* BookAppointmentStore with upsert: a patient that is not stored is created
BookAppointmentStore_upsert(coll, patientID, body) ==
    IF ~body.ok THEN coll
    ELSE IF \E i \in 1..Len(coll) : coll[i].id = patientID
    THEN UpdateOne(coll, MatchID(coll, patientID),
                   [i \in MatchID(coll, patientID) |->
                       [coll[i] EXCEPT !.schedule = PushOp(coll[i].schedule, body.val)]])
    ELSE InsertOne(coll, Patient(patientID, "", Slice(<<body.val>>)))

\* The store effect of BookAppointment.
BookAppointmentStore(coll, patientID, body) ==
    IF ~body.ok THEN coll
    ELSE UpdateOne(coll, MatchID(coll, patientID),
                   [i \in MatchID(coll, patientID) |->
                       [coll[i] EXCEPT !.schedule = PushOp(coll[i].schedule, body.val)]])

\* UpdateAppointmentStore that books the new value when nothing matched
UpdateAppointmentStore_fallback(coll, patientID, appointmentID, body) ==
    IF ~body.ok THEN coll
    ELSE IF \E i \in 1..Len(coll) :
               coll[i].id = patientID /\ Contains(coll[i].schedule, appointmentID)
    THEN UpdateOne(coll, MatchAppointment(coll, patientID, appointmentID),
                   [i \in MatchAppointment(coll, patientID, appointmentID) |->
                       [coll[i] EXCEPT !.schedule =
                           SetPositionalOp(coll[i].schedule, appointmentID, body.val)]])
    ELSE UpdateOne(coll, MatchID(coll, patientID),
                   [i \in MatchID(coll, patientID) |->
                       [coll[i] EXCEPT !.schedule = PushOp(coll[i].schedule, body.val)]])

\* The store effect of UpdateAppointment.
UpdateAppointmentStore(coll, patientID, appointmentID, body) ==
    IF ~body.ok THEN coll
    ELSE UpdateOne(coll, MatchAppointment(coll, patientID, appointmentID),
                   [i \in MatchAppointment(coll, patientID, appointmentID) |->
                       [coll[i] EXCEPT !.schedule =
                           SetPositionalOp(coll[i].schedule, appointmentID, body.val)]])

\* CancelAppointmentStore that drops one matching element per call
CancelAppointmentStore_one(coll, patientID, appointmentID) ==
    UpdateOne(coll, MatchID(coll, patientID),
              [i \in MatchID(coll, patientID) |->
                  [coll[i] EXCEPT !.schedule =
                      PullOp_first(coll[i].schedule, appointmentID)]])

\* The store effect of CancelAppointment.
CancelAppointmentStore(coll, patientID, appointmentID) ==
    UpdateOne(coll, MatchID(coll, patientID),
              [i \in MatchID(coll, patientID) |->
                  [coll[i] EXCEPT !.schedule = PullOp(coll[i].schedule, appointmentID)]])

BookAppointment(patientID, body) ==
    /\ patients' = BookAppointmentStore(patients, patientID, body)
    /\ last' = Step("BookAppointment", <<patientID, body>>,
                    IF ~body.ok
                    THEN Response(StatusBadRequest, "Invalid input data")
                    ELSE Response(StatusOK, "Appointment booked successfully"))
    /\ UNCHANGED <<users, doctors, pc, newUser, resp, overlap,
                   lastCreated, firstCreated>>

UpdateAppointment(patientID, appointmentID, body) ==
    /\ patients' = UpdateAppointmentStore(patients, patientID, appointmentID, body)
    /\ last' = Step("UpdateAppointment", <<patientID, appointmentID, body>>,
                    IF ~body.ok
                    THEN Response(StatusBadRequest, "Invalid input data")
                    ELSE Response(StatusOK, "Appointment updated successfully"))
    /\ UNCHANGED <<users, doctors, pc, newUser, resp, overlap,
                   lastCreated, firstCreated>>

CancelAppointment(patientID, appointmentID) ==
    /\ patients' = CancelAppointmentStore(patients, patientID, appointmentID)
    /\ last' = Step("CancelAppointment", <<patientID, appointmentID>>,
                    Response(StatusOK, "Appointment canceled successfully"))
    /\ UNCHANGED <<users, doctors, pc, newUser, resp, overlap,
                   lastCreated, firstCreated>>

\* ------------------------------------------------------------ initial state
\* The database outlives the server: the collections start with what earlier
\* runs and other clients left in them.  users starts with distinct usernames.
StoredUser == User("alice", GenerateFromPassword("secret", "s1"), "a@x.org")
StoredDoctor == Marshal(Doctor("d1", "Old", Slice(<<"Fri">>)))
PatientsA ==
    << Patient("p1", "Pat", Slice(<<"A1", "A2", "A1">>)),
       Patient("p2", "Quin", Slice(<<"A2">>)) >>
\* the id field is not the _id key: two documents may carry the same id
PatientsB ==
    << Patient("p1", "Pat", Slice(<<>>)),
       Patient("p1", "Twin", Slice(<<"A1">>)) >>

Init ==
    /\ users \in {<<>>, <<StoredUser>>}
    /\ doctors \in {<<>>, <<StoredDoctor>>}
    /\ patients \in {<<>>, PatientsA, PatientsB}
    /\ pc = [r \in Slots |-> "idle"]
    /\ newUser = [r \in Slots |-> <<>>]
    /\ resp = [r \in Slots |-> NoResponse]
    /\ last = Step("none", <<>>, NoResponse)
    /\ overlap = FALSE
    /\ lastCreated = [d \in DoctorIDs |-> <<>>]
    /\ firstCreated = [d \in DoctorIDs |-> <<>>]

\* ------------------------------------------------------------------- steps
InFlight == Cardinality({q \in Slots : pc[q] = "insert"})

\* A SignUp that would go on to insert starts only while the cap has room.
UsersRoom(cap, body) ==
    IF ~body.ok THEN TRUE
    ELSE IF isUsernameTaken(users, body.val.username) THEN TRUE
    ELSE Len(users) + InFlight < cap

DoctorsRoom(cap, body) == IF ~body.ok THEN TRUE ELSE Len(doctors) < cap

ScheduleRoom(cap, patientID, body) ==
    LET i == FindFirst(MatchID(patients, patientID))
    IN IF ~body.ok \/ i = 0 THEN TRUE ELSE Len(patients[i].schedule.elems) < cap

SignUpSteps(S, cap) ==
    \/ \E r \in S, body \in SignUpBodies : UsersRoom(cap, body) /\ SignUpCheck(r, body)
    \/ \E r \in S, salt \in Salts : SignUpInsert(r, salt)

DoctorSteps(bodies, schedules, cap) ==
    \/ GetDoctors
    \/ \E id \in DoctorIDs : GetDoctorByID(id)
    \/ \E body \in bodies : DoctorsRoom(cap, body) /\ CreateDoctor(body)
    \/ \E id \in DoctorIDs, body \in schedules : SetDoctorSchedule(id, body)

PatientSteps(ids, bodies, cap) ==
    \/ \E id \in ids, body \in bodies :
          ScheduleRoom(cap, id, body) /\ BookAppointment(id, body)
    \/ \E id \in ids, a \in Appointments, body \in bodies :
          UpdateAppointment(id, a, body)
    \/ \E id \in ids, a \in Appointments : CancelAppointment(id, a)

\* Sign-up alone, two requests in flight.
InitSignUp == Init /\ doctors = <<>> /\ patients = PatientsA
NextSignUp == SignUpSteps(Slots, MaxUsers)
SpecSignUp == InitSignUp /\ [][NextSignUp]_vars

\* The doctor directory alone.
InitDoctors == Init /\ users = <<StoredUser>> /\ doctors = <<>> /\ patients = PatientsA
NextDoctors == DoctorSteps(DoctorBodies, ScheduleBodies, MaxDoctors)
SpecDoctors == InitDoctors /\ [][NextDoctors]_vars

\* The appointment handlers alone.
InitPatients == Init /\ users = <<StoredUser>> /\ doctors = <<StoredDoctor>>
NextPatients == PatientSteps(PatientIDs, AppointmentBodies, MaxSchedule)
SpecPatients == InitPatients /\ [][NextPatients]_vars

\* Every routed handler, over small inputs.
InitAll == Init /\ users = <<>> /\ doctors = <<>> /\ patients = PatientsA
NextAll ==
    \/ SignUpSteps({"r1"}, AllMaxUsers)
    \/ DoctorSteps({Body(Doctor("d1", "Ann", Slice(<<"Mon", "Wed">>)))},
                   {Body(Slice(<<"Wed", "Mon">>))}, AllMaxDoctors)
    \/ PatientSteps(PatientIDs, {Body("A1"), Malformed("")}, AllMaxSchedule)
Spec == InitAll /\ [][NextAll]_vars

\* ============================================================== properties
\* C1: SignUp requests that do not overlap: a SignUp whose username is already
\* stored is answered 400 "Username is already taken" and leaves users as it
\* was, and as long as no SignUp began while another was in flight the users
\* collection holds at most one document per username.
C1_SequentialSignUpUnique ==
    /\ [](~overlap =>
            \A i, j \in 1..Len(users) :
                users[i].username = users[j].username => i = j)
    /\ [][(/\ last'.op = "SignUp"
           /\ last'.args[2].ok
           /\ \E i \in 1..Len(users) :
                 users[i].username = last'.args[2].val.username)
          => (/\ last'.status = 400
              /\ last'.body = "Username is already taken"
              /\ users' = users
              /\ pc' = pc)]_vars

\* C1 witness: without any overlap two users were stored and a further SignUp
\* was rejected as taken.
C1_Witness ==
    /\ ~overlap
    /\ Len(users) = 2
    /\ last.op = "SignUp"
    /\ last.status = 400
    /\ last.body = "Username is already taken"

\* C2: the insert half of SignUp does not look at the collection again: a
\* request that passed the check appends its user and answers 200 whatever
\* other requests stored in between, so two requests that both passed the
\* check for one username leave two documents with that username.
C2_InsertAfterStaleCheck ==
    [][\A r \in Slots :
          (pc[r] = "insert" /\ pc'[r] = "idle")
          => (/\ resp'[r].status = 200
              /\ Len(users') = Len(users) + 1
              /\ SubSeq(users', 1, Len(users)) = users
              /\ users'[Len(users')].username = newUser[r][1].username
              /\ users'[Len(users')].email = newUser[r][1].email
              /\ users'[Len(users')].password.alg = "bcrypt"
              /\ users'[Len(users')].password.of = newUser[r][1].password)]_vars

\* C2 witness: both requests ran their check before either insert, both were
\* answered 200, and users holds two documents with the same username.
C2_Witness ==
    /\ overlap
    /\ \A r \in Slots : pc[r] = "idle" /\ resp[r].status = 200
    /\ Len(users) = 2
    /\ users[1].username = users[2].username

\* C3 as stated: GetDoctorByID(d) answers 200 with the document of the latest
\* successful CreateDoctor with id d (no SetDoctorSchedule on d since), and
\* 404 "Doctor not found" when no document with id d is stored.
C3_Original ==
    last.op = "GetDoctorByID" =>
        LET d == last.args[1]
        IN IF \A i \in 1..Len(doctors) : doctors[i].id # d
           THEN last.status = 404 /\ last.body = "Doctor not found"
           ELSE /\ last.status = 200
                /\ lastCreated[d] # <<>> => last.body = lastCreated[d][1]

\* C3 amended: GetDoctorByID(d) answers 200 with a document of id d, which is
\* the document of the CreateDoctor that ran while no document with id d was
\* stored (no SetDoctorSchedule on d since): CreateDoctor checks no duplicate
\* id, and of several documents with one id the first stored is returned.
\* It answers 404 "Doctor not found" when no document with id d is stored.
C3_FirstCreatedReturned ==
    last.op = "GetDoctorByID" =>
        LET d == last.args[1]
        IN IF \A i \in 1..Len(doctors) : doctors[i].id # d
           THEN last.status = 404 /\ last.body = "Doctor not found"
           ELSE /\ last.status = 200
                /\ last.body.id = d
                /\ firstCreated[d] # <<>> => last.body = firstCreated[d][1]

\* C3 witness: two documents with id d1 are stored, the first of them created
\* through CreateDoctor, and GetDoctorByID(d1) has answered.
C3_Witness ==
    /\ last.op = "GetDoctorByID"
    /\ last.args[1] = "d1"
    /\ last.status = 200
    /\ firstCreated["d1"] # <<>>
    /\ Len(doctors) = 2
    /\ doctors[1].id = "d1" /\ doctors[2].id = "d1"

\* C4: a SetDoctorSchedule(d, s) answered 200 for a stored id d makes
\* GetDoctorByID(d) return schedule s exactly, with the id and the name as
\* before; every other doctor document, users and patients are unchanged.
C4_ScheduleReplaced ==
    [][(/\ last'.op = "SetDoctorSchedule"
        /\ last'.status = 200
        /\ \E i \in 1..Len(doctors) : doctors[i].id = last'.args[1])
       => LET d == last'.args[1]
              s == last'.args[2].val
              i == CHOOSE i \in 1..Len(doctors) :
                      doctors[i].id = d /\ \A j \in 1..(i - 1) : doctors[j].id # d
              got == GetDoctorByIDResponse(doctors', d)
          IN /\ got.status = 200
             /\ got.body.schedule = s
             /\ got.body.id = d
             /\ got.body.dname = doctors[i].dname
             /\ Len(doctors') = Len(doctors)
             /\ \A j \in 1..Len(doctors) : j # i => doctors'[j] = doctors[j]
             /\ users' = users
             /\ patients' = patients]_vars

\* C4 witness: SetDoctorSchedule was answered 200 for an id that two stored
\* documents carry.
C4_Witness ==
    /\ last.op = "SetDoctorSchedule"
    /\ last.status = 200
    /\ Len(doctors) = 2
    /\ doctors[1].id = last.args[1] /\ doctors[2].id = last.args[1]
    /\ doctors[1].schedule.elems = <<"Wed", "Mon">>

\* C5: a BookAppointment(p, a) answered 200 for a stored patient id p appends
\* exactly the one element a at the end of that patient's schedule, also when
\* a is in it already; the earlier elements, the patient's other fields and
\* all other documents are unchanged.
C5_BookAppends ==
    [][(/\ last'.op = "BookAppointment"
        /\ last'.status = 200
        /\ \E i \in 1..Len(patients) : patients[i].id = last'.args[1])
       => LET p == last'.args[1]
              a == last'.args[2].val
              i == CHOOSE i \in 1..Len(patients) :
                      patients[i].id = p /\ \A j \in 1..(i - 1) : patients[j].id # p
              old == patients[i].schedule.elems
              new == patients'[i].schedule.elems
          IN /\ Len(patients') = Len(patients)
             /\ Len(new) = Len(old) + 1
             /\ new[Len(new)] = a
             /\ \A k \in 1..Len(old) : new[k] = old[k]
             /\ patients'[i].id = p
             /\ patients'[i].pname = patients[i].pname
             /\ \A j \in 1..Len(patients) : j # i => patients'[j] = patients[j]]_vars

\* C5 witness: an appointment was booked that the schedule held before, and
\* the schedule now holds it twice, the second one last.
C5_Witness ==
    /\ last.op = "BookAppointment"
    /\ last.status = 200
    /\ \E i \in 1..Len(patients) :
          LET e == patients[i].schedule.elems
          IN /\ patients[i].id = last.args[1]
             /\ Len(e) = 3
             /\ e[3] = last.args[2].val
             /\ e[2] = last.args[2].val

\* C6: UpdateAppointment(p, old, new), when a stored document with id p holds
\* old in its schedule, overwrites with new the first element equal to old in
\* the first such document; the length of the schedule, every other element
\* of it and every other document are unchanged.
C6_UpdateReplacesFirst ==
    [][(/\ last'.op = "UpdateAppointment"
        /\ last'.args[3].ok
        /\ \E i \in 1..Len(patients) :
              /\ patients[i].id = last'.args[1]
              /\ \E k \in 1..Len(patients[i].schedule.elems) :
                    patients[i].schedule.elems[k] = last'.args[2])
       => LET p == last'.args[1]
              o == last'.args[2]
              n == last'.args[3].val
              Has(i) == /\ patients[i].id = p
                        /\ \E k \in 1..Len(patients[i].schedule.elems) :
                              patients[i].schedule.elems[k] = o
              i == CHOOSE i \in 1..Len(patients) :
                      Has(i) /\ \A j \in 1..(i - 1) : ~Has(j)
              old == patients[i].schedule.elems
              new == patients'[i].schedule.elems
              k == CHOOSE k \in 1..Len(old) :
                      old[k] = o /\ \A j \in 1..(k - 1) : old[j] # o
          IN /\ last'.status = 200
             /\ Len(patients') = Len(patients)
             /\ Len(new) = Len(old)
             /\ new[k] = n
             /\ \A j \in 1..Len(old) : j # k => new[j] = old[j]
             /\ patients'[i].id = p
             /\ patients'[i].pname = patients[i].pname
             /\ \A j \in 1..Len(patients) : j # i => patients'[j] = patients[j]]_vars

\* C6 witness: an appointment that occurred twice was updated: the new value
\* stands where the first one was and the second one is still there.
C6_Witness ==
    /\ last.op = "UpdateAppointment"
    /\ last.status = 200
    /\ last.args = <<"p1", "A1", Body("A2")>>
    /\ Len(patients) = 2
    /\ patients[1].id = "p1"
    /\ patients[1].schedule.elems = <<"A2", "A2", "A1">>

\* C7: CancelAppointment(p, a) answers 200 always; for a stored patient id p it
\* leaves in that patient's schedule exactly the elements different from a, in
\* their order; with no element equal to a, or no document with id p, the
\* store is unchanged.
C7_CancelRemovesAll ==
    [][last'.op = "CancelAppointment"
       => LET p == last'.args[1]
              a == last'.args[2]
          IN /\ last'.status = 200
             /\ last'.body = "Appointment canceled successfully"
             /\ users' = users /\ doctors' = doctors
             /\ Len(patients') = Len(patients)
             /\ IF \A i \in 1..Len(patients) : patients[i].id # p
                THEN patients' = patients
                ELSE LET i == CHOOSE i \in 1..Len(patients) :
                                 /\ patients[i].id = p
                                 /\ \A j \in 1..(i - 1) : patients[j].id # p
                         old == patients[i].schedule.elems
                         new == patients'[i].schedule.elems
                         kept == {k \in 1..Len(old) : old[k] # a}
                     IN /\ Len(new) = Cardinality(kept)
                        /\ \A k \in kept :
                              new[Cardinality({j \in kept : j <= k})] = old[k]
                        /\ patients'[i].id = p
                        /\ patients'[i].pname = patients[i].pname
                        /\ \A j \in 1..Len(patients) :
                              j # i => patients'[j] = patients[j]
                        /\ kept = 1..Len(old) => patients' = patients]_vars

\* C7 witness: the cancelled appointment occurred twice in the schedule of p1
\* and the one other element is what is left.
C7_Witness ==
    /\ last.op = "CancelAppointment"
    /\ last.args = <<"p1", "A1">>
    /\ last.status = 200
    /\ Len(patients) = 2
    /\ patients[1] = Patient("p1", "Pat", Slice(<<"A2">>))
    /\ patients[2] = Patient("p2", "Quin", Slice(<<"A2">>))

\* C8: UpdateAppointment(p, old, new) with a body that binds, when no stored
\* document with id p holds old in its schedule, changes nothing in the store
\* and answers 200 "Appointment updated successfully".
C8_UpdateNoMatchSucceeds ==
    [][(/\ last'.op = "UpdateAppointment"
        /\ last'.args[3].ok
        /\ \A i \in 1..Len(patients) :
              \/ patients[i].id # last'.args[1]
              \/ \A k \in 1..Len(patients[i].schedule.elems) :
                    patients[i].schedule.elems[k] # last'.args[2])
       => (/\ patients' = patients
           /\ users' = users
           /\ doctors' = doctors
           /\ last'.status = 200
           /\ last'.body = "Appointment updated successfully")]_vars

\* C8 witness: an UpdateAppointment for stored patient p2, whose schedule does
\* not hold the old value, was answered 200.
C8_Witness ==
    /\ last.op = "UpdateAppointment"
    /\ last.args = <<"p2", "A1", Body("A2")>>
    /\ last.status = 200
    /\ Len(patients) = 2
    /\ patients[2] = Patient("p2", "Quin", Slice(<<"A2">>))

\* C9 as stated: for each of the six routed operations and every request, the
\* store after performing the request twice in a row equals the store after
\* performing it once.
C9_Original ==
    /\ \A b \in SignUpBodies, s1, s2 \in Salts :
          SignUpStore(SignUpStore(users, b, s1), b, s2) = SignUpStore(users, b, s1)
    /\ \A b \in DoctorBodies :
          CreateDoctorStore(CreateDoctorStore(doctors, b), b)
             = CreateDoctorStore(doctors, b)
    /\ \A d \in DoctorIDs, b \in ScheduleBodies :
          SetDoctorScheduleStore(SetDoctorScheduleStore(doctors, d, b), d, b)
             = SetDoctorScheduleStore(doctors, d, b)
    /\ \A p \in PatientIDs, b \in AppointmentBodies :
          BookAppointmentStore(BookAppointmentStore(patients, p, b), p, b)
             = BookAppointmentStore(patients, p, b)
    /\ \A p \in PatientIDs, a \in Appointments, b \in AppointmentBodies :
          UpdateAppointmentStore(UpdateAppointmentStore(patients, p, a, b), p, a, b)
             = UpdateAppointmentStore(patients, p, a, b)
    /\ \A p \in PatientIDs, a \in Appointments :
          CancelAppointmentStore(CancelAppointmentStore(patients, p, a), p, a)
             = CancelAppointmentStore(patients, p, a)

\* C9 amended: SignUp (run without overlap), SetDoctorSchedule and
\* CancelAppointment are idempotent at the store.  CreateDoctor with a body
\* that binds is not (it inserts a document each time), BookAppointment is
\* idempotent only when the body does not bind or no patient with the id is
\* stored (otherwise it appends each time), and UpdateAppointment is
\* idempotent only when the body does not bind, new equals old, or old occurs
\* at most once in the schedules of the documents with the patient id.
C9_IdempotentOperations ==
    /\ \A b \in SignUpBodies, s1, s2 \in Salts :
          SignUpStore(SignUpStore(users, b, s1), b, s2) = SignUpStore(users, b, s1)
    /\ \A d \in DoctorIDs, b \in ScheduleBodies :
          SetDoctorScheduleStore(SetDoctorScheduleStore(doctors, d, b), d, b)
             = SetDoctorScheduleStore(doctors, d, b)
    /\ \A p \in PatientIDs, a \in Appointments :
          CancelAppointmentStore(CancelAppointmentStore(patients, p, a), p, a)
             = CancelAppointmentStore(patients, p, a)
    /\ \A b \in DoctorBodies :
          (CreateDoctorStore(CreateDoctorStore(doctors, b), b)
             = CreateDoctorStore(doctors, b)) <=> ~b.ok
    /\ \A p \in PatientIDs, b \in AppointmentBodies :
          (BookAppointmentStore(BookAppointmentStore(patients, p, b), p, b)
             = BookAppointmentStore(patients, p, b))
          <=> (~b.ok \/ \A i \in 1..Len(patients) : patients[i].id # p)
    /\ \A p \in PatientIDs, a \in Appointments, b \in AppointmentBodies :
          (UpdateAppointmentStore(UpdateAppointmentStore(patients, p, a, b), p, a, b)
             = UpdateAppointmentStore(patients, p, a, b))
          <=> \/ ~b.ok
              \/ b.val = a
              \/ Cardinality(UNION {
                    {<<i, k>> : k \in {k \in 1..Len(patients[i].schedule.elems) :
                                          patients[i].schedule.elems[k] = a}} :
                    i \in {i \in 1..Len(patients) : patients[i].id = p}}) <= 1

\* C9 witness: an appointment was booked for stored patient p2, and booking it
\* once more would change the store once more.
C9_Witness ==
    /\ last.op = "BookAppointment"
    /\ last.args = <<"p2", Body("A1")>>
    /\ last.status = 200
    /\ patients[2].schedule.elems = <<"A2", "A1">>
    /\ BookAppointmentStore(patients, "p2", Body("A1")) # patients

\* C10 as stated: no step changes which patient documents exist, and
\* BookAppointment, UpdateAppointment and CancelAppointment on a patient id
\* that is not stored leave the whole store unchanged and answer 200.
C10_Original ==
    /\ []({patients[i].id : i \in 1..Len(patients)} = {"p1", "p2"})
    /\ [][/\ Len(patients') = Len(patients)
          /\ \A i \in 1..Len(patients) : patients'[i].id = patients[i].id
          /\ (/\ last'.op \in {"BookAppointment", "UpdateAppointment",
                              "CancelAppointment"}
              /\ \A i \in 1..Len(patients) : patients[i].id # last'.args[1])
             => (/\ patients' = patients
                 /\ users' = users
                 /\ doctors' = doctors
                 /\ last'.status = 200)]_vars

\* C10 amended: no step changes which patient documents exist (the ids stay
\* those of the initial collection), and BookAppointment, UpdateAppointment
\* and CancelAppointment on a patient id that is not stored leave the whole
\* store unchanged; they answer 200 when the body binds (CancelAppointment
\* reads no body) and 400 "Invalid input data" when it does not.
C10_PatientsNeverCreated ==
    /\ []({patients[i].id : i \in 1..Len(patients)} = {"p1", "p2"})
    /\ [][/\ Len(patients') = Len(patients)
          /\ \A i \in 1..Len(patients) : patients'[i].id = patients[i].id
          /\ (/\ last'.op \in {"BookAppointment", "UpdateAppointment",
                              "CancelAppointment"}
              /\ \A i \in 1..Len(patients) : patients[i].id # last'.args[1])
             => (/\ patients' = patients
                 /\ users' = users
                 /\ doctors' = doctors
                 /\ LET binds == \/ last'.op = "CancelAppointment"
                                 \/ last'.args[Len(last'.args)].ok
                    IN IF binds THEN last'.status = 200
                       ELSE /\ last'.status = 400
                            /\ last'.body = "Invalid input data")]_vars

\* C10 witness: a BookAppointment for p3, which is not stored, was answered
\* 200 and the patients collection is the initial one.
C10_Witness ==
    /\ last.op = "BookAppointment"
    /\ last.args = <<"p3", Body("A1")>>
    /\ last.status = 200
    /\ patients = PatientsA

====
